---- MODULE Spec2Model ----
(***************************************************************************)
(* Model of src/77-cloudant-cf.js: the Cloudant nodes of Node-RED.         *)
(*                                                                         *)
(* Strings whose characters the code inspects (database names, field      *)
(* names, document identifiers) are sequences of one-character strings.    *)
(***************************************************************************)
EXTENDS Integers, Sequences, FiniteSets, TLC

VARIABLES
    nDatabase,   \* n.database: the configured, raw database name
    database,    \* node.database
    nameWarn,    \* warnings emitted by _cleanDatabaseName (node.warn)
    cmMsg,       \* the mapping handed to cleanMessage
    cmResult,    \* what cleanMessage returned and the warnings it emitted
    phase,       \* "start" before the function under study has run, then "done"
    operation,   \* node.operation of the outbound node
    payonly,     \* node.payonly of the outbound node
    out,         \* per message received by the outbound node: its operation chain
    search,      \* node.search of the inbound node
    inputId,     \* node.inputId of the inbound node
    inn,         \* per message received by the inbound node: its operation chain
    node,        \* the outbound node from its construction on: startup position,
                 \* reports, whether its input handler is registered
    dbExists     \* the backend: whether the node's database exists

pureVars == <<nDatabase, nameWarn, cmMsg, cmResult, phase>>
outVars  == <<operation, payonly, out>>
inVars   == <<search, inputId, inn>>
dbVars   == <<node, dbExists>>
vars == <<nDatabase, database, nameWarn, cmMsg, cmResult, phase,
          operation, payonly, out, search, inputId, inn, node, dbExists>>

\* an omitted or undefined argument, and a number given for it
Undefined  == [def |-> FALSE]
Defined(n) == [def |-> TRUE, n |-> n]

(***************************************************************************)
(* Bounds                                                                  *)
(***************************************************************************)
MaxNameLen == 3
MaxFields == 2
NumMsgs == 2
MaxRows == 2

Msgs == 1..NumMsgs

\* var MAX_ATTEMPTS = 3;
MAX_ATTEMPTS == 3

RECURSIVE SeqsUpTo(_, _)
SeqsUpTo(S, n) ==
    IF n = 0 THEN {<<>>}
    ELSE LET shorter == SeqsUpTo(S, n - 1)
         IN  shorter \cup {Append(s, c) : s \in shorter, c \in S}

(***************************************************************************)
(* JavaScript values.  An object is an ordered list of fields (own         *)
(* enumerable properties in insertion order); a string is kept by what     *)
(* JSON.parse makes of it.                                                 *)
(***************************************************************************)
Num(n)    == [t |-> "number", n |-> n]
Null      == [t |-> "null"]
Undef     == [t |-> "undefined"]
Obj(f)    == [t |-> "object", f |-> f]
Arr(e)    == [t |-> "array", e |-> e]
True      == [t |-> "boolean", b |-> TRUE]
Fld(k, v) == [k |-> k, v |-> v]

\* the outbound node's variables in a specification without that node
OutUnused ==
    /\ operation = "insert"
    /\ payonly = FALSE
    /\ out = <<>>

\* the startup of the outbound node and the backend's state in a
\* specification that starts after the startup and leaves the backend open
DbUnused ==
    /\ node = [pc |-> "ready", registered |-> TRUE]
    /\ dbExists = FALSE

\* the inbound node's variables in a specification without that node
InUnused ==
    /\ search = "_id_"
    /\ inputId = Null
    /\ inn = <<>>

(***************************************************************************)
(* _cleanDatabaseName                                                      *)
(***************************************************************************)
NameChars == {"A", "a", "_", " ", "/", "-"}

\* String.prototype.toLowerCase on one character
LowerChar(c) == IF c = "A" THEN "a" ELSE c

IsUpperChar(c) == c = "A"

\* the character class [\s\\/]
IsSpaceOrSlash(c) == c \in {" ", "\t", "/", "\\"}

toLowerCase(s) == [i \in 1..Len(s) |-> LowerChar(s[i])]

\* replace(/^_/, "")
StripLeadingUnderscore(s) ==
    IF Len(s) > 0 /\ s[1] = "_" THEN Tail(s) ELSE s

RECURSIVE SkipRun(_)
SkipRun(s) ==
    IF s # <<>> /\ IsSpaceOrSlash(Head(s)) THEN SkipRun(Tail(s)) ELSE s

\* replace(/[\s\\/]+/g, "-")
RECURSIVE ReplaceRuns(_)
ReplaceRuns(s) ==
    IF s = <<>> THEN <<>>
    ELSE IF IsSpaceOrSlash(Head(s))
         THEN <<"-">> \o ReplaceRuns(SkipRun(Tail(s)))
         ELSE <<Head(s)>> \o ReplaceRuns(Tail(s))

_cleanDatabaseName(s) == ReplaceRuns(StripLeadingUnderscore(toLowerCase(s)))

\* the warnings one call of _cleanDatabaseName emits
cleanDatabaseNameWarnings(s) ==
    IF _cleanDatabaseName(s) # s THEN <<_cleanDatabaseName(s)>> ELSE <<>>

InitName ==
    /\ nDatabase \in SeqsUpTo(NameChars, MaxNameLen)
    /\ database = <<>>
    /\ nameWarn = <<>>
    /\ phase = "start"
    /\ cmMsg = Null
    /\ cmResult = [msg |-> Null, warns |-> <<>>]
    /\ OutUnused
    /\ InUnused
    /\ DbUnused

\* this.database = _cleanDatabaseName(n.database, this)
CleanDatabaseNameStep ==
    /\ phase = "start"
    /\ phase' = "done"
    /\ database' = _cleanDatabaseName(nDatabase)
    /\ nameWarn' = nameWarn \o cleanDatabaseNameWarnings(nDatabase)
    /\ UNCHANGED <<nDatabase, cmMsg, cmResult>>
    /\ UNCHANGED <<outVars, inVars, dbVars>>

NextName == CleanDatabaseNameStep

SpecName == InitName /\ [][NextName]_vars

(***************************************************************************)
(* C8: _cleanDatabaseName is idempotent: applied to its own result it      *)
(* returns that result and emits no warning.                               *)
(***************************************************************************)
C8_Idempotent ==
    phase = "done" =>
        /\ _cleanDatabaseName(database) = database
        /\ cleanDatabaseNameWarnings(database) = <<>>

(***************************************************************************)
(* C9: the result of _cleanDatabaseName has no uppercase character, does   *)
(* not start with an underscore and has no whitespace or slash character;  *)
(* a warning is emitted iff the result differs from the input.             *)
(***************************************************************************)
C9_Normalized ==
    phase = "done" =>
        /\ \A i \in 1..Len(database) :
              ~IsUpperChar(database[i]) /\ ~IsSpaceOrSlash(database[i])
        /\ ~(Len(database) > 0 /\ database[1] = "_")
        /\ (nameWarn # <<>>) <=> (database # nDatabase)


\* field names, character by character
K_id       == <<"_", "i", "d">>
K_rev      == <<"_", "r", "e", "v">>
K_a        == <<"a">>
K_ua       == <<"_", "a">>
K_uua      == <<"_", "_", "a">>
K_length   == <<"l", "e", "n", "g", "t", "h">>
K_payload  == <<"p", "a", "y", "l", "o", "a", "d">>
K_empty    == <<>>

HasKey(f, k) == \E i \in 1..Len(f) : f[i].k = k
IndexOfKey(f, k) == CHOOSE i \in 1..Len(f) : f[i].k = k
GetKey(f, k) == f[IndexOfKey(f, k)].v

\* msg[k] = v : an existing property keeps its place, a new one goes last
SetKey(f, k, v) ==
    IF HasKey(f, k)
    THEN [i \in 1..Len(f) |-> IF f[i].k = k THEN Fld(k, v) ELSE f[i]]
    ELSE Append(f, Fld(k, v))

\* delete msg[k]
DeleteKey(f, k) == SelectSeq(f, LAMBDA e : e.k # k)

Keys(f) == [i \in 1..Len(f) |-> f[i].k]

Min(a, b) == IF a < b THEN a ELSE b
Max(a, b) == IF a > b THEN a ELSE b

\* String.prototype.substring(start, end)
substring(s, start, end) ==
    LET len == Len(s)
        a   == Min(Max(start, 0), len)
        b   == IF end.def THEN Min(Max(end.n, 0), len) ELSE len
    IN  SubSeq(s, Min(a, b) + 1, Max(a, b))

\* msg.length as substring's second argument: undefined when the mapping has
\* no such property, its number when it is one, NaN (taken as 0) otherwise
LengthOf(f) ==
    IF ~HasKey(f, K_length) THEN Undefined
    ELSE IF GetKey(f, K_length).t = "number" THEN Defined(GetKey(f, K_length).n)
    ELSE Defined(0)

(***************************************************************************)
(* isFieldNameValid, cleanMessage                                          *)
(***************************************************************************)
allowedWords == {
    K_id, K_rev,
    <<"_","a","t","t","a","c","h","m","e","n","t","s">>,
    <<"_","d","e","l","e","t","e","d">>,
    <<"_","r","e","v","i","s","i","o","n","s">>,
    <<"_","r","e","v","s","_","i","n","f","o">>,
    <<"_","c","o","n","f","l","i","c","t","s">>,
    <<"_","d","e","l","e","t","e","d","_","c","o","n","f","l","i","c","t","s">>,
    <<"_","l","o","c","a","l","_","s","e","q">> }

\* key[0] !== "_" || allowedWords.indexOf(key) >= 0
isFieldNameValid(key) ==
    (Len(key) = 0 \/ key[1] # "_") \/ key \in allowedWords

\* The for-in loop of cleanMessage over the fields f: todo is the list of
\* keys still to visit, warns the renames reported so far.  A key deleted
\* before its turn is skipped.  ECMAScript leaves open whether a property
\* added during the enumeration is visited: visitAdded chooses.
RECURSIVE cleanLoop(_, _, _, _)
cleanLoop(f, todo, warns, visitAdded) ==
    IF todo = <<>> THEN [f |-> f, warns |-> warns]
    ELSE LET key == Head(todo) IN
         IF HasKey(f, key) /\ ~isFieldNameValid(key)
         THEN LET newKey == substring(key, 1, LengthOf(f))
                  added  == ~HasKey(f, newKey)
                  f2     == DeleteKey(SetKey(f, newKey, GetKey(f, key)), key)
                  todo2  == IF visitAdded /\ added
                            THEN Append(Tail(todo), newKey) ELSE Tail(todo)
              IN  cleanLoop(f2, todo2,
                            Append(warns, [key |-> key, newKey |-> newKey]),
                            visitAdded)
         ELSE cleanLoop(f, Tail(todo), warns, visitAdded)

\* cleanMessage(msg): the cleaned value and the warnings emitted; for-in
\* over null visits nothing
cleanMessage(msg, visitAdded) ==
    IF msg.t = "object"
    THEN LET r == cleanLoop(msg.f, Keys(msg.f), <<>>, visitAdded)
         IN  [msg |-> Obj(r.f), warns |-> r.warns]
    ELSE [msg |-> msg, warns |-> <<>>]

\* the mappings cleanMessage is tried on
CleanKeys   == {K_id, K_rev, K_a, K_ua, K_uua, K_length}
CleanValues == {Num(0), Num(1)}

NoDupKeys(f) == \A i, j \in 1..Len(f) : f[i].k = f[j].k => i = j

Mappings ==
    {f \in SeqsUpTo({Fld(k, v) : k \in CleanKeys, v \in CleanValues}, MaxFields) :
        NoDupKeys(f)}

InitClean ==
    /\ cmMsg \in {Obj(f) : f \in Mappings}
    /\ cmResult = [msg |-> Null, warns |-> <<>>]
    /\ phase = "start"
    /\ nDatabase = <<>>
    /\ database = <<>>
    /\ nameWarn = <<>>
    /\ OutUnused
    /\ InUnused
    /\ DbUnused

CleanMessageStep ==
    /\ phase = "start"
    /\ phase' = "done"
    /\ \E visitAdded \in BOOLEAN : cmResult' = cleanMessage(cmMsg, visitAdded)
    /\ UNCHANGED <<cmMsg, nDatabase, database, nameWarn>>
    /\ UNCHANGED <<outVars, inVars, dbVars>>

NextClean == CleanMessageStep

SpecClean == InitClean /\ [][NextClean]_vars

(***************************************************************************)
(* C10: after cleanMessage every field name of the document either does    *)
(* not start with "_" or is one of the allowed words, also when the input  *)
(* name starts with more than one "_".                                     *)
(***************************************************************************)
StartsWithUnderscore(key) == Len(key) > 0 /\ key[1] = "_"

C10_AllFieldNamesValid ==
    phase = "done" =>
        \A i \in 1..Len(cmResult.msg.f) :
            \/ ~StartsWithUnderscore(cmResult.msg.f[i].k)
            \/ cmResult.msg.f[i].k \in allowedWords

(***************************************************************************)
(* parseMessage                                                            *)
(***************************************************************************)
\* a string, kept by what JSON.parse makes of it:
\*   kind "json"  : JSON text, json is the value it denotes
\*   kind "text"  : not JSON, and free of characters a JSON string escapes
\*   kind "quote" : not JSON, and containing a double quote
JsonText(v) == [t |-> "string", kind |-> "json", json |-> v]
Text(chars) == [t |-> "string", kind |-> "text", json |-> Null, chars |-> chars]
PlainText   == Text(<<"h", "i">>)
QuoteText   == [t |-> "string", kind |-> "quote", json |-> Null]

\* typeof v === "object"
IsObjectType(v) == v.t \in {"object", "array", "null"}

\* the boolean value of v, as in msg.payload || msg
Truthy(v) ==
    CASE v.t \in {"object", "array"} -> TRUE
      [] v.t \in {"null", "undefined"} -> FALSE
      [] v.t = "number" -> v.n # 0
      [] v.t = "boolean" -> v.b
      [] v.t = "string" -> TRUE

\* JSON.parse(v): a number argument is first turned into its text
JSONparse(v) ==
    CASE v.t = "number" -> [thrown |-> FALSE, val |-> v]
      [] v.t = "string" /\ v.kind = "json" -> [thrown |-> FALSE, val |-> v.json]
      [] OTHER -> [thrown |-> TRUE, val |-> Null]

\* "" + v
ToText(v) == IF v.t = "number" THEN JsonText(v) ELSE v

\* JSON.parse("{\"" + root + "\":\"" + msg + "\"}")
WrapInRoot(root, v) ==
    IF ToText(v).kind = "quote"
    THEN [thrown |-> TRUE, val |-> Null]
    ELSE [thrown |-> FALSE, val |-> Obj(<<Fld(root, ToText(v))>>)]

\* parseMessage(msg, root): thrown when it raises, else the document and the
\* warnings of cleanMessage
parseMessage(msg, root, visitAdded) ==
    LET first  == JSONparse(msg)
        parsed ==
            IF IsObjectType(msg) THEN [thrown |-> FALSE, val |-> msg]
            ELSE IF first.thrown THEN WrapInRoot(root, msg)
            ELSE IF ~IsObjectType(first.val) THEN WrapInRoot(root, first.val)
            ELSE first
        cleaned == cleanMessage(parsed.val, visitAdded)
    IN  IF parsed.thrown
        THEN [thrown |-> TRUE, doc |-> Null, warns |-> <<>>]
        ELSE [thrown |-> FALSE, doc |-> cleaned.msg, warns |-> cleaned.warns]

(***************************************************************************)
(* The backend, as the outbound node sees it: every call is answered, with *)
(* success or with an error carrying status_code and description.          *)
(***************************************************************************)
OkAnswer == [ok |-> TRUE, status_code |-> 200, description |-> "ok"]
Err(code, description) ==
    [ok |-> FALSE, status_code |-> code, description |-> description]

NoDatabase  == Err(404, "no_db_file")
ServerError == Err(500, "internal_server_error")
Conflict    == Err(409, "conflict")
FileExists  == Err(412, "file_exists")

InsertAnswers  == {OkAnswer, NoDatabase, ServerError}
CreateAnswers  == {OkAnswer, FileExists}
DestroyAnswers == {OkAnswer, Conflict}

(***************************************************************************)
(* CloudantOutNode                                                         *)
(***************************************************************************)
\* the payloads of the messages sent to the outbound node
DocIdRev == Obj(<<Fld(K_id, Num(1)), Fld(K_rev, Num(1))>>)
DocId    == Obj(<<Fld(K_id, Num(1))>>)

OutPayloads ==
    {DocIdRev, DocId, JsonText(DocIdRev), JsonText(Null), PlainText,
     QuoteText, Null}

\* the message object carrying a payload
Message(payload) == Obj(<<Fld(K_payload, payload)>>)

\* node.error(text + err.description, err)
Report(text, description) == [text |-> text, description |-> description]

\* new Error("_id and _rev are required to delete a document"), reported
MissingIdRev == Report("", "_id and _rev are required to delete a document")

\* a message not yet received
IdleMsg ==
    [pc |-> "idle", parsed |-> FALSE, doc |-> Null, attempts |-> MAX_ATTEMPTS,
     answers |-> <<>>, nInsert |-> 0, nCreate |-> 0, destroyed |-> <<>>,
     callbacks |-> 0, errors |-> <<>>, warns |-> <<>>,
     pending |-> OkAnswer, conflicts |-> 0]

InitOut ==
    /\ operation \in {"insert", "delete"}
    /\ payonly \in BOOLEAN
    /\ out = [m \in Msgs |-> IdleMsg]
    /\ database = <<"d", "b">>
    /\ nDatabase = <<"d", "b">>
    /\ nameWarn = <<>>
    /\ phase = "done"
    /\ cmMsg = Null
    /\ cmResult = [msg |-> Null, warns |-> <<>>]
    /\ InUnused
    /\ DbUnused

\* insertDocument(cloudant, node, doc, attempts, callback) up to the point
\* where db.insert has been issued
insertDocument(st, doc, attempts) ==
    [st EXCEPT !.pc = "insert", !.parsed = TRUE, !.doc = doc,
               !.attempts = attempts,
               !.nInsert = @ + 1]

\* "k" in doc; raises a TypeError when doc is null
InDoc(doc, k) == doc.t = "object" /\ HasKey(doc.f, k)

\* handleMessage, operation "insert"
HandleInsert(m, payload, visitAdded) ==
    LET msg == IF payonly THEN payload ELSE Message(payload)
        root == IF payonly THEN K_payload ELSE <<"m", "s", "g">>
        p == parseMessage(msg, root, visitAdded)
    IN  out' = [out EXCEPT ![m] =
            IF p.thrown THEN [@ EXCEPT !.pc = "thrown"]
            ELSE insertDocument([@ EXCEPT !.warns = p.warns],
                                p.doc, MAX_ATTEMPTS)]

\* handleMessage, operation "delete"
HandleDelete(m, payload, visitAdded) ==
    LET arg == IF Truthy(payload) THEN payload ELSE Message(payload)
        p == parseMessage(arg, K_empty, visitAdded)
    IN  out' = [out EXCEPT ![m] =
            IF p.thrown THEN [@ EXCEPT !.pc = "thrown"]
            ELSE IF p.doc.t = "null"
            THEN [@ EXCEPT !.pc = "thrown", !.parsed = TRUE, !.doc = p.doc,
                           !.warns = p.warns]
            ELSE IF InDoc(p.doc, K_rev) /\ InDoc(p.doc, K_id)
            THEN [@ EXCEPT !.pc = "destroy", !.parsed = TRUE, !.doc = p.doc,
                           !.warns = p.warns,
                           !.destroyed = Append(@,
                               [id  |-> GetKey(p.doc.f, K_id),
                                rev |-> GetKey(p.doc.f, K_rev)])]
            ELSE [@ EXCEPT !.pc = "done", !.parsed = TRUE, !.doc = p.doc,
                           !.warns = p.warns,
                           !.errors = Append(@, MissingIdRev)]]

\* handleMessage(cloudant, node, msg) for a message with one of the payloads
handleMessage(m, payloads) ==
    \E payload \in payloads, visitAdded \in BOOLEAN :
        IF operation = "insert"
        THEN HandleInsert(m, payload, visitAdded)
        ELSE HandleDelete(m, payload, visitAdded)

\* node.on("input", ...): handleMessage(cloudant, node, msg)
HandleMessage(m) ==
    /\ out[m].pc = "idle"
    /\ handleMessage(m, OutPayloads)
    /\ UNCHANGED <<operation, payonly, database, pureVars, inVars, dbVars>>

\* err && err.status_code === 404 && attempts > 0
ShouldRetry_BudgetOffByOne(ans, attempts) ==
    ~ans.ok /\ ans.status_code = 404 /\ attempts >= 0

ShouldRetry_AnyError(ans, attempts) == ~ans.ok /\ attempts > 0

ShouldRetry_NoErrCheck(ans, attempts) ==
    (ans.ok \/ ans.status_code = 404) /\ attempts > 0

ShouldRetry(ans, attempts) ==
    ~ans.ok /\ ans.status_code = 404 /\ attempts > 0

\* function(err, body) {...} given to db.insert in insertDocument, run with
\* the answer ans for the message in state st0
insertCallback(st0, ans) ==
    LET st == [st0 EXCEPT !.answers = Append(@, ans)] IN
    IF ShouldRetry(ans, st.attempts)
    THEN [st EXCEPT !.pc = "create", !.nCreate = @ + 1]
    ELSE [st EXCEPT !.pc = "done", !.callbacks = @ + 1,
                    !.errors =
                        IF ~ans.ok
                        THEN Append(@, Report("Failed to insert document: ",
                                              ans.description))
                        ELSE @]

\* function() {...} given to cloudant.db.create in insertDocument: whatever
\* the answer, insertDocument(cloudant, node, doc, attempts-1, callback)
createCallback_FailOnError(st, ans) ==
    IF ans.ok
    THEN insertDocument(st, st.doc, st.attempts - 1)
    ELSE [st EXCEPT !.pc = "done", !.callbacks = @ + 1,
                    !.errors = Append(@, Report("Failed to insert document: ",
                                                ans.description))]

createCallback(st, ans) == insertDocument(st, st.doc, st.attempts - 1)

\* the callback of db.insert in insertDocument
InsertReply(m) ==
    /\ out[m].pc = "insert"
    /\ \E ans \in InsertAnswers :
         out' = [out EXCEPT ![m] = insertCallback(@, ans)]
    /\ UNCHANGED <<operation, payonly, database, pureVars, inVars, dbVars>>

\* the callback of cloudant.db.create in insertDocument
CreateReply(m) ==
    /\ out[m].pc = "create"
    /\ \E ans \in CreateAnswers :
         out' = [out EXCEPT ![m] = createCallback(@, ans)]
    /\ UNCHANGED <<operation, payonly, database, pureVars, inVars, dbVars>>

\* the callback of db.destroy in handleMessage
DestroyReply(m) ==
    /\ out[m].pc = "destroy"
    /\ \E ans \in DestroyAnswers :
         out' = [out EXCEPT ![m] =
            [@ EXCEPT !.pc = "done",
                      !.errors =
                          IF ~ans.ok
                          THEN Append(@, Report("Failed to delete document: ",
                                                ans.description))
                          ELSE @]]
    /\ UNCHANGED <<operation, payonly, database, pureVars, inVars, dbVars>>

NextOut ==
    \E m \in Msgs :
        \/ HandleMessage(m)
        \/ InsertReply(m)
        \/ CreateReply(m)
        \/ DestroyReply(m)

SpecOut == InitOut /\ [][NextOut]_vars

(***************************************************************************)
(* C1: an insert message all of whose insert attempts are answered with    *)
(* status 404 issues at most 3 create calls and at most 4 insert calls,    *)
(* its budget never goes below 0, and after the fourth 404 it has failed:  *)
(* the error is reported once, with the backend's description.            *)
(***************************************************************************)
All404(m) ==
    \A i \in 1..Len(out[m].answers) :
        ~out[m].answers[i].ok /\ out[m].answers[i].status_code = 404

C1_BoundedRetry ==
    operation = "insert" =>
        \A m \in Msgs :
            All404(m) =>
                /\ out[m].nCreate <= MAX_ATTEMPTS
                /\ out[m].nInsert <= MAX_ATTEMPTS + 1
                /\ out[m].attempts >= 0
                /\ Len(out[m].answers) = MAX_ATTEMPTS + 1 <=> out[m].pc = "done"
                /\ out[m].pc = "done" =>
                     /\ out[m].nCreate = MAX_ATTEMPTS
                     /\ out[m].nInsert = MAX_ATTEMPTS + 1
                     /\ out[m].callbacks = 1
                     /\ out[m].errors =
                          <<Report("Failed to insert document: ",
                                   NoDatabase.description)>>

C1_Witness ==
    /\ operation = "insert"
    /\ \E m \in Msgs :
         /\ All404(m)
         /\ Len(out[m].answers) = MAX_ATTEMPTS + 1
         /\ out[m].pc = "done"
         /\ out[m].attempts = 0
         /\ Len(out[m].errors) = 1

(***************************************************************************)
(* C2: when the backend accepts the first insert attempt of a message,     *)
(* exactly one insert call and no create call is issued for it, and no     *)
(* error is reported for it.                                               *)
(***************************************************************************)
FirstAccepted(m) == Len(out[m].answers) >= 1 /\ out[m].answers[1].ok

C2_SingleInsert ==
    operation = "insert" =>
        \A m \in Msgs :
            FirstAccepted(m) =>
                /\ out[m].pc = "done"
                /\ out[m].nInsert = 1
                /\ out[m].nCreate = 0
                /\ out[m].errors = <<>>

C2_Witness ==
    /\ operation = "insert"
    /\ \E m \in Msgs : FirstAccepted(m) /\ out[m].pc = "done" /\ out[m].nInsert = 1

(***************************************************************************)
(* C3: an insert attempt that fails with a status other than 404 is        *)
(* terminal whatever the remaining budget: it is the last backend call of  *)
(* the message (no create call, no further insert call) and the backend's  *)
(* error is reported exactly once with its description.                    *)
(***************************************************************************)
OtherError(ans) == ~ans.ok /\ ans.status_code # 404

C3_OtherErrorTerminal ==
    operation = "insert" =>
        \A m \in Msgs :
            \A i \in 1..Len(out[m].answers) :
                OtherError(out[m].answers[i]) =>
                    /\ i = Len(out[m].answers)
                    /\ out[m].pc = "done"
                    /\ out[m].nInsert = i
                    /\ out[m].nCreate = i - 1
                    /\ out[m].callbacks = 1
                    /\ out[m].errors =
                         <<Report("Failed to insert document: ",
                                  out[m].answers[i].description)>>

C3_Witness ==
    /\ operation = "insert"
    /\ \E m \in Msgs :
         /\ Len(out[m].answers) = 2
         /\ OtherError(out[m].answers[2])
         /\ out[m].attempts = MAX_ATTEMPTS - 1
         /\ out[m].pc = "done"

(***************************************************************************)
(* C6: a delete message whose extracted document lacks _id or _rev has     *)
(* the missing-precondition error reported once and no backend call;       *)
(* db.destroy is called only when both are present, with that _id and      *)
(* _rev.                                                                   *)
(***************************************************************************)
HasIdAndRev(doc) == InDoc(doc, K_id) /\ InDoc(doc, K_rev)

C6_DeletePrecondition ==
    operation = "delete" =>
        \A m \in Msgs :
            /\ (out[m].parsed /\ ~HasIdAndRev(out[m].doc)) =>
                   /\ out[m].errors = <<MissingIdRev>>
                   /\ out[m].destroyed = <<>>
            /\ out[m].destroyed # <<>> =>
                   /\ HasIdAndRev(out[m].doc)
                   /\ out[m].destroyed =
                        <<[id  |-> GetKey(out[m].doc.f, K_id),
                           rev |-> GetKey(out[m].doc.f, K_rev)]>>

(***************************************************************************)
(* CloudantInNode                                                          *)
(***************************************************************************)
K_plainid      == <<"i", "d">>
K_q            == <<"q">>
K_query        == <<"q", "u", "e", "r", "y">>
K_include_docs == <<"i","n","c","l","u","d","e","_","d","o","c","s">>
K_limit        == <<"l", "i", "m", "i", "t">>
K_sort         == <<"s", "o", "r", "t">>
K_rows         == <<"r", "o", "w", "s">>
K_doc          == <<"d", "o", "c">>

\* "_design/"
DesignPrefix == <<"_", "d", "e", "s", "i", "g", "n", "/">>

IdA == Text(<<"a">>)
IdB == Text(<<"b">>)

\* the payloads of the messages sent to the inbound node
InPayloads == {IdA, Obj(<<Fld(K_id, IdB)>>), Null}

\* obj[k], undefined when there is no such property
Get(f, k) == IF HasKey(f, k) THEN GetKey(f, k) ELSE Undef

\* a || b
OrElse(a, b) == IF Truthy(a) THEN a ELSE b

\* getDocumentId(payload); called with null it raises a TypeError, which the
\* caller models
getDocumentId(payload) ==
    IF payload.t = "object"
       /\ (HasKey(payload.f, K_id) \/ HasKey(payload.f, K_plainid))
    THEN OrElse(Get(payload.f, K_plainid), Get(payload.f, K_id))
    ELSE payload

\* the characters of "" + v
CharsOf(v) ==
    CASE v.t = "string" /\ v.kind = "text" -> v.chars
      [] v.t = "number" /\ v.n = 0 -> <<"0">>
      [] v.t = "number" /\ v.n = 1 -> <<"1">>
      [] OTHER -> <<"[object Object]">>

RECURSIVE TrimLeft(_)
TrimLeft(s) == IF s # <<>> /\ Head(s) = " " THEN TrimLeft(Tail(s)) ELSE s

RECURSIVE TrimRight(_)
TrimRight(s) ==
    IF s # <<>> /\ s[Len(s)] = " " THEN TrimRight(SubSeq(s, 1, Len(s) - 1)) ELSE s

\* String.prototype.trim
trim(s) == TrimRight(TrimLeft(s))

RECURSIVE QueryString(_)
QueryString(f) ==
    IF f = <<>> THEN <<>>
    ELSE Head(f).k \o <<":">> \o CharsOf(Head(f).v) \o <<" ">>
         \o QueryString(Tail(f))

\* formatSearchQuery(query)
formatSearchQuery(query) ==
    IF query.t = "object"
    THEN IF HasKey(query.f, K_q) THEN GetKey(query.f, K_q)
         ELSE Text(trim(QueryString(query.f)))
    ELSE query

\* var options = typeof msg.payload === "object" ? msg.payload : {};
\* (msg.payload null is taken, and the first property access on it raises)
OptionsOf(payload) == IF payload.t = "object" THEN payload.f ELSE <<>>

\* the options of db.search
SearchOptions(payload) ==
    LET o0 == OptionsOf(payload)
        o1 == SetKey(o0, K_query,
                  OrElse(OrElse(Get(o0, K_query), Get(o0, K_q)),
                         formatSearchQuery(payload)))
        o2 == SetKey(o1, K_include_docs, OrElse(Get(o1, K_include_docs), True))
        o3 == SetKey(o2, K_limit, OrElse(Get(o2, K_limit), Num(200)))
    IN  IF Truthy(Get(o3, K_sort))
        THEN SetKey(o3, K_sort, JsonText(Get(o3, K_sort)))
        ELSE o3

\* the options of db.list
ListOptions(payload) ==
    LET o0 == OptionsOf(payload)
    IN  SetKey(o0, K_include_docs, OrElse(Get(o0, K_include_docs), True))

\* the answers of the backend to a read
ReadOk(body) ==
    [ok |-> TRUE, status_code |-> 200, description |-> "ok", body |-> body]
ReadErr(code, description) ==
    [ok |-> FALSE, status_code |-> code, description |-> description,
     body |-> Undef]

Missing    == ReadErr(404, "missing")
Deleted    == ReadErr(404, "deleted")
ReadFailed == ReadErr(500, "internal_server_error")

\* the identifiers of the documents in a rows collection
RowIds ==
    {<<"a">>, <<"b">>, DesignPrefix \o <<"v">>, <<"a">> \o DesignPrefix \o <<"v">>}

Row(id) == Obj(<<Fld(K_doc, Obj(<<Fld(K_id, Text(id))>>))>>)

NoDup(q) == \A i, j \in 1..Len(q) : q[i] = q[j] => i = j

RowLists == {q \in SeqsUpTo({Row(id) : id \in RowIds}, MaxRows) : NoDup(q)}

GetAnswers(id) ==
    {ReadOk(Obj(<<Fld(K_id, id), Fld(K_rev, Num(1))>>)), Missing, Deleted,
     ReadFailed}

RowsAnswers ==
    {ReadOk(Obj(<<Fld(K_rows, Arr(q))>>)) : q \in RowLists} \cup {ReadFailed}

\* String.prototype.indexOf: the first place (from 0) where pat occurs in s,
\* or -1
indexOf(s, pat) ==
    LET places == {i \in 0..(Len(s) - Len(pat)) :
                      SubSeq(s, i + 1, i + Len(pat)) = pat}
    IN  IF places = {} THEN -1
        ELSE CHOOSE i \in places : \A j \in places : i <= j

\* el.doc._id.indexOf("_design/") < 0
KeepRow(el) ==
    indexOf(GetKey(GetKey(el.f, K_doc).f, K_id).chars, DesignPrefix) < 0

\* body.rows.map(...).filter(...)
RowsPayload(rows) ==
    LET kept == SelectSeq(rows, KeepRow)
    IN  Arr([i \in 1..Len(kept) |-> GetKey(kept[i].f, K_doc)])

\* err.description === "missing"
IsMissing_ByStatus(ans) == ans.status_code = 404

IsMissing(ans) == ans.description = "missing"

\* a message not yet received
IdleIn ==
    [pc |-> "idle", payload |-> Undef, cloudant |-> Undef, request |-> Undef,
     nCalls |-> 0, answer |-> ReadErr(0, "none"), sent |-> <<>>,
     warns |-> <<>>, errors |-> <<>>]

\* sendDocumentOnPayload(err, body, msg)
sendDocumentOnPayload(ans, st) ==
    LET st1 ==
          IF ans.ok
          THEN [st EXCEPT !.cloudant = ans.body,
                          !.payload =
                              IF HasKey(ans.body.f, K_rows)
                              THEN RowsPayload(GetKey(ans.body.f, K_rows).e)
                              ELSE ans.body]
          ELSE IF IsMissing(ans)
          THEN [st EXCEPT !.payload = Null,
                          !.warns = Append(@, [id |-> inputId,
                                               database |-> database])]
          ELSE [st EXCEPT !.payload = Null,
                          !.errors = Append(@, Report("", ans.description))]
    IN  [st1 EXCEPT !.pc = "done", !.answer = ans,
                    !.sent = Append(@, [payload |-> st1.payload,
                                        cloudant |-> st1.cloudant])]

\* the msg a backend callback of the inbound node sends on: the one its
\* closure captured when the call for message m was issued
CallbackMsg_Shared(m) ==
    CHOOSE k \in Msgs :
        /\ inn[k].pc # "idle"
        /\ \A j \in Msgs : inn[j].pc # "idle" => j <= k

CallbackMsg(m) == m

\* function(err, body) { sendDocumentOnPayload(err, body, msg); } run for the
\* call issued for message m
Callback(m, ans) ==
    LET answered == [inn EXCEPT ![m].pc = "answered"]
        k == CallbackMsg(m)
    IN  [answered EXCEPT ![k] = sendDocumentOnPayload(ans, @)]

InitIn ==
    /\ search \in {"_id_", "_idx_", "_all_"}
    /\ inputId = Text(<<>>)
    /\ inn = [m \in Msgs |-> IdleIn]
    /\ database = <<"d", "b">>
    /\ nDatabase = <<"d", "b">>
    /\ nameWarn = <<>>
    /\ phase = "done"
    /\ cmMsg = Null
    /\ cmResult = [msg |-> Null, warns |-> <<>>]
    /\ OutUnused
    /\ DbUnused

\* node.on("input", function(msg) {...}) of the inbound node
InputIn(m) ==
    /\ inn[m].pc = "idle"
    /\ \E payload \in InPayloads :
         IF payload.t = "null"
         THEN /\ inn' = [inn EXCEPT ![m] =
                    [@ EXCEPT !.pc = "thrown", !.payload = payload]]
              /\ UNCHANGED inputId
         ELSE IF search = "_id_"
         THEN /\ inputId' = getDocumentId(payload)
              /\ inn' = [inn EXCEPT ![m] =
                    [@ EXCEPT !.pc = "get", !.payload = payload,
                              !.request = getDocumentId(payload),
                              !.nCalls = @ + 1]]
         ELSE IF search = "_idx_"
         THEN /\ inn' = [inn EXCEPT ![m] =
                    [@ EXCEPT !.pc = "search",
                              !.payload = IF payload.t = "object"
                                          THEN Obj(SearchOptions(payload))
                                          ELSE payload,
                              !.request = Obj(SearchOptions(payload)),
                              !.nCalls = @ + 1]]
              /\ UNCHANGED inputId
         ELSE /\ inn' = [inn EXCEPT ![m] =
                    [@ EXCEPT !.pc = "list",
                              !.payload = IF payload.t = "object"
                                          THEN Obj(ListOptions(payload))
                                          ELSE payload,
                              !.request = Obj(ListOptions(payload)),
                              !.nCalls = @ + 1]]
              /\ UNCHANGED inputId
    /\ UNCHANGED <<search, database, pureVars, outVars, dbVars>>

\* the callback of db.get
GetReply(m) ==
    /\ inn[m].pc = "get"
    /\ \E ans \in GetAnswers(inn[m].request) : inn' = Callback(m, ans)
    /\ UNCHANGED <<search, inputId, database, pureVars, outVars, dbVars>>

\* the callback of db.search
SearchReply(m) ==
    /\ inn[m].pc = "search"
    /\ \E ans \in RowsAnswers : inn' = Callback(m, ans)
    /\ UNCHANGED <<search, inputId, database, pureVars, outVars, dbVars>>

\* the callback of db.list
ListReply(m) ==
    /\ inn[m].pc = "list"
    /\ \E ans \in RowsAnswers : inn' = Callback(m, ans)
    /\ UNCHANGED <<search, inputId, database, pureVars, outVars, dbVars>>

NextIn ==
    \E m \in Msgs :
        \/ InputIn(m)
        \/ GetReply(m)
        \/ SearchReply(m)
        \/ ListReply(m)

SpecIn == InitIn /\ [][NextIn]_vars

(***************************************************************************)
(* C4: in ById mode a backend error described as "missing" yields one      *)
(* warning and no error report, sets the payload to null and the message   *)
(* is still sent; any other backend error yields one error report and no   *)
(* warning.                                                                *)
(***************************************************************************)
C4_MissingIsWarning ==
    search = "_id_" =>
        \A m \in Msgs :
            (inn[m].pc = "done" /\ ~inn[m].answer.ok) =>
                IF inn[m].answer.description = "missing"
                THEN /\ Len(inn[m].warns) = 1
                     /\ inn[m].errors = <<>>
                     /\ inn[m].payload = Null
                     /\ Len(inn[m].sent) = 1
                     /\ inn[m].sent[1].payload = Null
                ELSE /\ inn[m].errors =
                          <<Report("", inn[m].answer.description)>>
                     /\ inn[m].warns = <<>>

C4_Witness ==
    /\ search = "_id_"
    /\ \E m, k \in Msgs :
         /\ inn[m].pc = "done" /\ inn[m].answer = Missing
         /\ Len(inn[m].warns) = 1 /\ Len(inn[m].sent) = 1
         /\ inn[k].pc = "done" /\ inn[k].answer = Deleted
         /\ Len(inn[k].errors) = 1

(***************************************************************************)
(* C5: whatever the interleaving of ById messages on one inbound node, the *)
(* not-found warning of a message carries the identifier that this message *)
(* asked for, and the node's database name.                                *)
(***************************************************************************)
C5_WarningCarriesOwnId ==
    search = "_id_" =>
        \A m \in Msgs :
            \A i \in 1..Len(inn[m].warns) :
                /\ inn[m].warns[i].id = inn[m].request
                /\ inn[m].warns[i].database = database

(***************************************************************************)
(* C7: when the backend's answer has a rows collection, the payload sent   *)
(* is the sequence of the rows' documents whose _id does not begin with    *)
(* "_design/", in their original order.                                    *)
(***************************************************************************)
StartsWith(s, pre) == Len(s) >= Len(pre) /\ SubSeq(s, 1, Len(pre)) = pre

IsRegularRow(el) ==
    ~StartsWith(GetKey(GetKey(el.f, K_doc).f, K_id).chars, DesignPrefix)

RegularDocs(rows) ==
    LET kept == SelectSeq(rows, IsRegularRow)
    IN  Arr([i \in 1..Len(kept) |-> GetKey(kept[i].f, K_doc)])

HasRows(ans) == ans.ok /\ HasKey(ans.body.f, K_rows)

C7_DesignDocsFiltered ==
    \A m \in Msgs :
        (inn[m].pc = "done" /\ HasRows(inn[m].answer)) =>
            /\ Len(inn[m].sent) = 1
            /\ inn[m].sent[1].payload =
                 RegularDocs(GetKey(inn[m].answer.body.f, K_rows).e)

(***************************************************************************)
(* C11: cleanMessage returns a mapping whose names are all valid with the  *)
(* same fields and values and without a warning; in general it warns once  *)
(* for each field it renames, and a field it does not rename keeps its     *)
(* name and its value.                                                     *)
(***************************************************************************)
IsCleanMapping(f) == \A i \in 1..Len(f) : isFieldNameValid(f[i].k)

InvalidKeys(f) == {f[i].k : i \in {j \in 1..Len(f) : ~isFieldNameValid(f[j].k)}}

C11_CleanUnchanged ==
    phase = "done" =>
        /\ IsCleanMapping(cmMsg.f) =>
               /\ cmResult.msg = cmMsg
               /\ cmResult.warns = <<>>
        /\ Len(cmResult.warns) >= Cardinality(InvalidKeys(cmMsg.f))
        /\ \A k \in InvalidKeys(cmMsg.f) :
               \E i \in 1..Len(cmResult.warns) : cmResult.warns[i].key = k
        /\ \A i \in 1..Len(cmResult.warns) :
               ~isFieldNameValid(cmResult.warns[i].key)
        /\ \A i \in 1..Len(cmMsg.f) :
               isFieldNameValid(cmMsg.f[i].k) =>
                   /\ HasKey(cmResult.msg.f, cmMsg.f[i].k)
                   /\ GetKey(cmResult.msg.f, cmMsg.f[i].k) = cmMsg.f[i].v

(***************************************************************************)
(* C13: when the backend call of a read message fails with an error other  *)
(* than "missing", the error is reported once, no message is sent for it   *)
(* and no further backend call is made for it.                             *)
(***************************************************************************)
HardError(ans) == ~ans.ok /\ ans.description # "missing"

C13_HardErrorHalts ==
    \A m \in Msgs :
        (inn[m].pc = "done" /\ HardError(inn[m].answer)) =>
            /\ inn[m].errors = <<Report("", inn[m].answer.description)>>
            /\ inn[m].warns = <<>>
            /\ inn[m].nCalls = 1
            /\ inn[m].sent = <<>>

(***************************************************************************)
(* C14: every read message issues exactly one backend call, whatever the   *)
(* backend answers.                                                        *)
(***************************************************************************)
C14_SingleAttempt ==
    \A m \in Msgs :
        /\ inn[m].nCalls <= 1
        /\ inn[m].pc # "idle" => inn[m].nCalls = 1

(***************************************************************************)
(* C15: the message handler of the outbound node never raises an           *)
(* exception, whatever the payload.                                        *)
(***************************************************************************)
C15_NeverThrows == \A m \in Msgs : out[m].pc # "thrown"

(***************************************************************************)
(* C12: every message the inbound node sends carries in msg.cloudant the   *)
(* raw backend response to the query issued for it, on the success path    *)
(* and on the not-found and error paths alike.                             *)
(***************************************************************************)
RawResponse(ans) ==
    IF ans.ok THEN ans.body
    ELSE [status_code |-> ans.status_code, description |-> ans.description]

C12_RawResponseAttached ==
    \A m \in Msgs :
        \A i \in 1..Len(inn[m].sent) :
            inn[m].sent[i].cloudant = RawResponse(inn[m].answer)

(***************************************************************************)
(* C20: whatever the interleaving of the read messages of one inbound      *)
(* node, a message is sent at most once, only after its own query was      *)
(* answered, and with the payload made from that answer; in ById mode the  *)
(* document sent is the one the message asked for.                         *)
(***************************************************************************)
PayloadOf(ans) ==
    IF ~ans.ok THEN Null
    ELSE IF HasKey(ans.body.f, K_rows)
    THEN RowsPayload(GetKey(ans.body.f, K_rows).e)
    ELSE ans.body

C20_OwnResultOnce ==
    \A m \in Msgs :
        /\ Len(inn[m].sent) <= 1
        /\ inn[m].pc # "done" => inn[m].sent = <<>>
        /\ inn[m].pc = "done" =>
               /\ Len(inn[m].sent) = 1
               /\ inn[m].sent[1].payload = PayloadOf(inn[m].answer)
               /\ (search = "_id_" /\ inn[m].answer.ok) =>
                      GetKey(inn[m].sent[1].payload.f, K_id) = inn[m].request

C20_Witness ==
    /\ search = "_id_"
    /\ \E m, k \in Msgs :
         /\ m > k
         /\ inn[m].pc = "done" /\ inn[m].answer.ok
         /\ inn[k].pc = "get"
         /\ inn[k].request # inn[m].request

(***************************************************************************)
(* C18: the operation chain of every insert message ends in exactly one    *)
(* outcome: once no backend call of the message is outstanding, its        *)
(* completion callback has been invoked exactly once, with either success  *)
(* and no report or one error report.                                      *)
(***************************************************************************)
Outstanding(m) == out[m].pc \in {"insert", "create"}

C18_ExactlyOneOutcome ==
    operation = "insert" =>
        \A m \in Msgs :
            /\ out[m].callbacks <= 1
            /\ Len(out[m].errors) <= 1
            /\ (out[m].pc # "idle" /\ ~Outstanding(m)) =>
                   /\ out[m].callbacks = 1
                   /\ out[m].answers # <<>>
                   /\ (out[m].errors = <<>>) <=>
                          out[m].answers[Len(out[m].answers)].ok

(***************************************************************************)
(* The outbound node from its construction on, against a backend that      *)
(* works: the database is there or not, db.insert answers 404 exactly      *)
(* when it is not, db.create creates it or answers that it exists.  The    *)
(* backend serves a call some time after it was issued and before its      *)
(* callback runs.                                                          *)
(***************************************************************************)
\* n.service: the external connection, no service, a bound service
Services == {"_ext_", "", "cloudantNoSQLDB"}

\* the payloads of the messages sent to the node during and after startup
DbPayloads == {DocId, QuoteText}

NoConfig == [def |-> FALSE]
Config(account, username, password) ==
    [def |-> TRUE, account |-> account, username |-> username,
     password |-> password]

\* _getCloudantConfig(n)
_getCloudantConfig(service) ==
    IF service = "_ext_" THEN Config("acct", "user", "pw")
    ELSE IF service # "" THEN Config("host", "svcuser", "svcpw")
    ELSE NoConfig

Unauthorized == Err(401, "unauthorized")
Forbidden    == Err(403, "forbidden")

ConnectAnswers == {OkAnswer, Unauthorized}

\* the answer to cloudant.db.list
ListOk(all_dbs) ==
    [ok |-> TRUE, status_code |-> 200, description |-> "ok", all_dbs |-> all_dbs]
ListErr(e) ==
    [ok |-> FALSE, status_code |-> e.status_code,
     description |-> e.description, all_dbs |-> {}]

ListAnswers(exists) ==
    {ListOk(IF exists THEN {database} ELSE {}), ListErr(Forbidden),
     ListErr(ServerError)}

\* the answer of the backend to db.insert and to cloudant.db.create
InsertAnswer(exists) == IF exists THEN OkAnswer ELSE NoDatabase
CreateAnswer(exists) == IF exists THEN FileExists ELSE OkAnswer

NewNode(service) ==
    [pc |-> "new", registered |-> FALSE, service |-> service, connects |-> 0,
     errors |-> <<>>, answer |-> ListOk({})]

InitNode ==
    /\ node \in {NewNode(service) : service \in Services}
    /\ dbExists \in BOOLEAN
    /\ operation = "insert"
    /\ payonly \in BOOLEAN
    /\ out = [m \in Msgs |-> IdleMsg]
    /\ database = <<"d", "b">>
    /\ nDatabase = <<"d", "b">>
    /\ nameWarn = <<>>
    /\ phase = "done"
    /\ cmMsg = Null
    /\ cmResult = [msg |-> Null, warns |-> <<>>]
    /\ InUnused

\* CloudantOutNode(n) up to Cloudant(credentials, ...): reading
\* node.cloudantConfig.account of an undefined configuration raises
Construct ==
    /\ node.pc = "new"
    /\ node' = IF _getCloudantConfig(node.service).def
               THEN [node EXCEPT !.pc = "connect", !.connects = @ + 1]
               ELSE [node EXCEPT !.pc = "thrown"]
    /\ UNCHANGED <<dbExists, database, pureVars, outVars, inVars>>

\* function(err, cloudant) {...} given to Cloudant(credentials, ...)
ConnectReply ==
    /\ node.pc = "connect"
    /\ \E ans \in ConnectAnswers :
         node' = IF ~ans.ok
                 THEN [node EXCEPT !.pc = "failed",
                                   !.errors = Append(@, Report("", ans.description))]
                 ELSE [node EXCEPT !.pc = "list", !.registered = TRUE]
    /\ UNCHANGED <<dbExists, database, pureVars, outVars, inVars>>

\* the backend serves cloudant.db.list
BackendList ==
    /\ node.pc = "list"
    /\ \E ans \in ListAnswers(dbExists) :
         node' = [node EXCEPT !.pc = "listed", !.answer = ans]
    /\ UNCHANGED <<dbExists, database, pureVars, outVars, inVars>>

\* function(err, all_dbs) {...} given to cloudant.db.list in createDatabase
ListDatabasesReply ==
    /\ node.pc = "listed"
    /\ node' =
         IF ~node.answer.ok
         THEN IF node.answer.status_code = 403
              THEN [node EXCEPT !.pc = "ready"]
              ELSE [node EXCEPT !.pc = "ready",
                                !.errors = Append(@,
                                    Report("Failed to list databases: ",
                                           node.answer.description))]
         ELSE IF database \notin node.answer.all_dbs
              THEN [node EXCEPT !.pc = "create"]
              ELSE [node EXCEPT !.pc = "ready"]
    /\ UNCHANGED <<dbExists, database, pureVars, outVars, inVars>>

\* the backend serves the cloudant.db.create of createDatabase
BackendCreateDatabase ==
    /\ node.pc = "create"
    /\ node' = [node EXCEPT !.pc = "created",
                            !.answer = ListErr(CreateAnswer(dbExists))]
    /\ dbExists' = TRUE
    /\ UNCHANGED <<database, pureVars, outVars, inVars>>

\* function(err) {...} given to cloudant.db.create in createDatabase
CreateDatabaseReply ==
    /\ node.pc = "created"
    /\ node' =
         IF node.answer.status_code # 200
         THEN [node EXCEPT !.pc = "ready",
                           !.errors = Append(@,
                               Report("Failed to create database: ",
                                      node.answer.description))]
         ELSE [node EXCEPT !.pc = "ready"]
    /\ UNCHANGED <<dbExists, database, pureVars, outVars, inVars>>

\* node.on("input", ...), registered in the connect callback
ReceiveMessage(m) ==
    /\ node.registered
    /\ out[m].pc = "idle"
    /\ handleMessage(m, DbPayloads)
    /\ UNCHANGED <<operation, payonly, database, pureVars, inVars, dbVars>>

\* the backend serves the db.insert of message m
BackendInsert(m) ==
    /\ out[m].pc = "insert"
    /\ out' = [out EXCEPT ![m] =
          [@ EXCEPT !.pc = "inserted", !.pending = InsertAnswer(dbExists)]]
    /\ UNCHANGED <<operation, payonly, database, pureVars, inVars, dbVars>>

\* the callback of db.insert in insertDocument
InsertAnswered(m) ==
    /\ out[m].pc = "inserted"
    /\ out' = [out EXCEPT ![m] = insertCallback(@, @.pending)]
    /\ UNCHANGED <<operation, payonly, database, pureVars, inVars, dbVars>>

\* the backend serves the cloudant.db.create of message m
BackendCreate(m) ==
    /\ out[m].pc = "create"
    /\ out' = [out EXCEPT ![m] =
          [@ EXCEPT !.pc = "created", !.pending = CreateAnswer(dbExists),
                    !.conflicts = IF dbExists THEN @ + 1 ELSE @]]
    /\ dbExists' = TRUE
    /\ UNCHANGED <<operation, payonly, database, pureVars, inVars, node>>

\* the callback of cloudant.db.create in insertDocument
CreateAnswered(m) ==
    /\ out[m].pc = "created"
    /\ out' = [out EXCEPT ![m] = createCallback(@, @.pending)]
    /\ UNCHANGED <<operation, payonly, database, pureVars, inVars, dbVars>>

NextNode ==
    \/ Construct
    \/ ConnectReply
    \/ BackendList
    \/ ListDatabasesReply
    \/ BackendCreateDatabase
    \/ CreateDatabaseReply
    \/ \E m \in Msgs :
        \/ ReceiveMessage(m)
        \/ BackendInsert(m)
        \/ InsertAnswered(m)
        \/ BackendCreate(m)
        \/ CreateAnswered(m)

SpecNode == InitNode /\ [][NextNode]_vars

(***************************************************************************)
(* C16: a node configured with neither credential source reports a         *)
(* configuration error exactly once at startup and never connects to the   *)
(* backend or issues a backend operation.                                  *)
(***************************************************************************)
C16_ConfigErrorReported ==
    (node.service = "" /\ node.pc # "new") =>
        /\ Len(node.errors) = 1
        /\ node.connects = 0
        /\ ~node.registered
        /\ \A m \in Msgs : out[m].pc = "idle"

(***************************************************************************)
(* C17: when insert messages race to create the missing database, the      *)
(* insert of each is retried after its create call completes, whatever     *)
(* the answer to the create call, and a message whose create call lost     *)
(* the race succeeds without an error report, as does every other racing   *)
(* insert once the database exists.                                        *)
(***************************************************************************)
C17_RaceLoserRetries ==
    \A m \in Msgs :
        /\ out[m].pc \in {"insert", "inserted", "done"} =>
               out[m].nInsert = out[m].nCreate + 1
        /\ out[m].pc \in {"create", "created"} =>
               out[m].nInsert = out[m].nCreate
        /\ out[m].pc = "done" =>
               /\ out[m].errors = <<>>
               /\ out[m].callbacks = 1
               /\ out[m].answers[Len(out[m].answers)].ok

C17_Witness ==
    \E m, k \in Msgs :
        /\ m # k
        /\ out[m].pc = "done" /\ out[m].nCreate = 1 /\ out[m].conflicts = 1
        /\ out[k].pc = "done" /\ out[k].nCreate = 1 /\ out[k].conflicts = 0
        /\ out[m].errors = <<>> /\ out[k].errors = <<>>

(***************************************************************************)
(* C19: the node accepts messages from the moment startup provisioning is  *)
(* issued, and against a backend whose create and insert calls work every  *)
(* insert message ends in success, within its retry budget and without an  *)
(* error report, however it interleaves with the provisioning.             *)
(***************************************************************************)
InFlight(m) == out[m].pc \in {"insert", "inserted", "create", "created"}

C19_InsertSucceedsDuringStartup ==
    /\ node.registered <=>
           node.pc \in {"list", "listed", "create", "created", "ready"}
    /\ \A m \in Msgs :
           /\ out[m].nInsert <= MAX_ATTEMPTS + 1
           /\ out[m].attempts >= 0
           /\ (out[m].pc # "idle" /\ ~InFlight(m)) =>
                  /\ out[m].pc = "done"
                  /\ out[m].errors = <<>>
                  /\ out[m].answers[Len(out[m].answers)].ok

====
